---- MODULE Spec2Model ----
(***************************************************************************)
(* The singly-linked stack of src/src/second.rs (List<T>, its three        *)
(* iterators and its Drop), as a state machine over an explicit heap of    *)
(* boxed nodes.                                                            *)
(***************************************************************************)
EXTENDS Integers, Sequences, FiniteSets, TLC

\* ------------------------------------------------------------------ bounds
MaxNodes == 3       \* Box::new calls explored (nodes ever allocated)
MaxElem == 2        \* element values are 1..MaxElem
MaxExtra == 2       \* calls explored after an empty result (next, pop)

Elems == 1..MaxElem

\* ------------------------------------------------------------ the heap
None == 0           \* Link::None; a Some(Box) link is the node's index in heap
Moved == 0          \* content of an elem field whose value was moved out

VARIABLES
    root,           \* List.root : Link<T>
    heap,           \* the boxes ever allocated: [elem, next, drops]
    pc,             \* what the caller holds: the list, a borrow, an iterator, or a drop in progress
    ret,            \* the last call and what it returned
    refs,           \* nodes whose elem the caller holds a live &mut T to (each kept for the whole borrow 'a)
    cursor,         \* Iter.next / IterMut.next
    cur_link,       \* local of drop
    boxed_node,     \* local of drop's loop body
    iters,          \* loop iterations of the drop in progress
    dropN,          \* nodes in the chain when drop was entered
    maxDepth,       \* deepest nesting of node destruction seen
    shape,          \* "push": only pushes since new; "pop": pushes then pops; else "mixed"
    pushLog,        \* the elements pushed, in call order (shape # "mixed")
    popLog,         \* the results of the pops after them (shape = "pop")
    snap,           \* the chain's elements when the borrow / iterator was created
    yielded,        \* what the iterator's next calls returned, in order
    expect,         \* snap, with position i replaced by the last value written through the i-th yielded &mut
    abs,            \* the stack as a plain sequence, first element first: push prepends, pop removes the head
    pushes,         \* push calls since new
    pops,           \* pops since new that returned Some
    root1,          \* first.rs List.root : Link
    heap1,          \* first.rs: the boxes ever allocated
    ret1,           \* first.rs: what the last pop returned
    sync            \* the first.rs list has been given the same calls as the second.rs list

vars == <<root, heap, pc, ret, refs, cursor, cur_link, boxed_node, iters, dropN,
          maxDepth, shape, pushLog, popLog, snap, yielded, expect,
          abs, pushes, pops, root1, heap1, ret1, sync>>

progState == <<root, heap, pc, refs, cursor, cur_link, boxed_node>>
dropLocals == <<cur_link, boxed_node, iters, dropN, maxDepth>>
callLogs == <<shape, pushLog, popLog>>
iterLogs == <<snap, yielded, expect>>
absLogs == <<abs, pushes, pops>>
firstVars == <<root1, heap1, ret1, sync>>

Max(a, b) == IF a >= b THEN a ELSE b
Some(x) == <<x>>
Nothing == <<>>

RECURSIVE Reverse(_)
Reverse(s) == IF s = <<>> THEN <<>> ELSE Append(Reverse(Tail(s)), Head(s))

\* The nodes reached from link l through next, first to last (at most k of them).
RECURSIVE Walk(_, _, _)
Walk(l, h, k) ==
    IF l = None \/ k = 0 THEN <<>> ELSE <<l>> \o Walk(h[l].next, h, k - 1)

ChainNodes(l, h) == Walk(l, h, Len(h) + 1)
ChainElems(l, h) == [i \in 1..Len(ChainNodes(l, h)) |-> h[ChainNodes(l, h)[i]].elem]

Min(a, b) == IF a <= b THEN a ELSE b
Somes(s) == [i \in 1..Len(s) |-> Some(s[i])]

\* What a reference to a node's elem field reads.
Deref(h, n) == h[n].elem

\* ------------------------------------------------------------ List<T>
new == [root |-> None]

\* A take that reads the value and leaves it where it was.
take_copying(l) == [val |-> l, left |-> l]

\* Option::take: the value, and what is left in its place.
take(l) == [val |-> l, left |-> None]

\* A replace that reads the old value out and leaves it in place as well.
mem_replace_copying(dest, src) == [old |-> dest, new |-> dest]

\* mem::replace(dest, src): the old value, and what dest holds afterwards.
mem_replace(dest, src) == [old |-> dest, new |-> src]

\* Box::new(Node { elem, next })
Box_new(h, e, nx) == Append(h, [elem |-> e, next |-> nx, drops |-> 0])

\* A push whose node does not take over the old chain.
push_unlinked(r, h, e) ==
    LET h2 == Box_new(h, e, None)
    IN  [root |-> Len(h2), heap |-> h2]

\* Inside push, after Box::new and before self.root is set: the old chain
\* hangs off the new node and the list's own link has been taken.
push_taken(r, h, e) ==
    LET t == take(r)
        h2 == Box_new(h, e, t.val)
    IN  [root |-> t.left, heap |-> h2, new_node |-> Len(h2)]

push(r, h, e) ==
    LET m == push_taken(r, h, e)
    IN  [root |-> m.new_node, heap |-> m.heap]

\* The box of node n is released.
Free(h, n) ==
    [h EXCEPT ![n] = [elem |-> Moved, next |-> None, drops |-> @.drops + 1]]

\* A pop that forgets to put the removed node's successor back as root.
pop_losing_tail(r, h) ==
    IF r = None
    THEN [root |-> None, heap |-> h, ret |-> Nothing]
    ELSE [root |-> None, heap |-> Free(h, r), ret |-> Some(h[r].elem)]

\* A pop that never releases the box it removed.
pop_leaking(r, h) ==
    IF r = None
    THEN [root |-> None, heap |-> h, ret |-> Nothing]
    ELSE [root |-> h[r].next, heap |-> h, ret |-> Some(h[r].elem)]

\* A pop that answers an empty list with a default element.
pop_default(r, h) ==
    IF r = None
    THEN [root |-> None, heap |-> h, ret |-> Some(Moved)]
    ELSE [root |-> h[r].next, heap |-> Free(h, r), ret |-> Some(h[r].elem)]

\* Inside pop, after self.root.take(): what map is called on, and the list.
pop_taken(r, h) ==
    LET t == take(r)
    IN  [root |-> t.left, heap |-> h, node |-> t.val]

pop(r, h) ==
    LET m == pop_taken(r, h)
    IN  IF m.node = None
        THEN [root |-> m.root, heap |-> m.heap, ret |-> Nothing]
        ELSE [root |-> m.heap[m.node].next,
              heap |-> Free(m.heap, m.node),
              ret  |-> Some(m.heap[m.node].elem)]

\* Option::as_ref / as_mut: a view of the value; the link stays in place.
as_ref(l) == [val |-> l, left |-> l]
as_mut(l) == [val |-> l, left |-> l]

\* A peek that takes the link out instead of borrowing it.
peek_taking(r, h) ==
    LET t == take(r)
    IN  [root |-> t.left, heap |-> h,
         ret  |-> IF t.val = None THEN Nothing ELSE Some(t.val)]

\* The reference returned is to the elem field of the node: Some(n) below.
peek(r, h) ==
    LET t == as_ref(r)
    IN  [root |-> t.left, heap |-> h,
         ret  |-> IF t.val = None THEN Nothing ELSE Some(t.val)]

\* A peek_mut that hands out a reference whatever the link holds.
peek_mut_unchecked(r, h) ==
    [root |-> r, heap |-> h, ret |-> Some(r)]

\* A peek_mut whose reference is to the second node's elem.
peek_mut_second(r, h) ==
    [root |-> r, heap |-> h,
     ret  |-> IF r = None THEN Nothing
              ELSE IF h[r].next = None THEN Some(r) ELSE Some(h[r].next)]

peek_mut(r, h) ==
    LET t == as_mut(r)
    IN  [root |-> t.left, heap |-> h,
         ret  |-> IF t.val = None THEN Nothing ELSE Some(t.val)]

\* ------------------------------------------------------------ first.rs List
Empty == 0          \* Link::Empty; Link::PointerTo(box) is the node's index in heap1

first_new == [root |-> Empty]

first_push(r, h, e) ==
    LET m == mem_replace(r, Empty)
        h2 == Box_new(h, e, m.old)
    IN  [root |-> Len(h2), heap |-> h2]

\* A pop that leaves the root Empty after a removal.
first_pop_losing_tail(r, h) ==
    IF r = Empty
    THEN [root |-> Empty, heap |-> h, ret |-> Nothing]
    ELSE [root |-> Empty, heap |-> Free(h, r), ret |-> Some(h[r].elem)]

first_pop(r, h) ==
    LET m == mem_replace(r, Empty)
    IN  IF m.old = Empty
        THEN [root |-> m.new, heap |-> h, ret |-> Nothing]
        ELSE [root |-> h[m.old].next,
              heap |-> Free(h, m.old),
              ret  |-> Some(h[m.old].elem)]

Init ==
    /\ root = new.root
    /\ heap = <<>>
    /\ pc = "list"
    /\ ret = [op |-> "new", val |-> Nothing]
    /\ refs = {}
    /\ cursor = None
    /\ cur_link = None
    /\ boxed_node = None
    /\ iters = 0
    /\ dropN = 0
    /\ maxDepth = 0
    /\ shape = "push"
    /\ pushLog = <<>>
    /\ popLog = <<>>
    /\ snap = <<>>
    /\ yielded = <<>>
    /\ expect = <<>>
    /\ abs = <<>>
    /\ pushes = 0
    /\ pops = 0
    /\ root1 = first_new.root
    /\ heap1 = <<>>
    /\ ret1 = Nothing
    /\ sync = TRUE

Push(e) ==
    /\ pc = "list"
    /\ Len(heap) < MaxNodes
    /\ LET p == push(root, heap, e)
       IN  /\ root' = p.root
           /\ heap' = p.heap
    /\ ret' = [op |-> "push", val |-> Nothing]
    /\ shape' = IF shape = "push" THEN "push" ELSE "mixed"
    /\ pushLog' = IF shape = "push" THEN Append(pushLog, e) ELSE <<>>
    /\ popLog' = <<>>
    /\ abs' = <<e>> \o abs
    /\ pushes' = pushes + 1
    /\ IF sync
       THEN LET p1 == first_push(root1, heap1, e)
            IN  root1' = p1.root /\ heap1' = p1.heap
       ELSE UNCHANGED <<root1, heap1>>
    /\ UNCHANGED <<pc, refs, cursor, dropLocals, iterLogs, pops, ret1, sync>>

Pop ==
    /\ pc = "list"
    /\ LET p == pop(root, heap)
           logged == shape # "mixed" /\ Len(popLog) < Len(pushLog) + MaxExtra
       IN  /\ root' = p.root
           /\ heap' = p.heap
           /\ ret' = [op |-> "pop", val |-> p.ret]
           /\ shape' = IF logged THEN "pop" ELSE "mixed"
           /\ pushLog' = IF logged THEN pushLog ELSE <<>>
           /\ popLog' = IF logged THEN Append(popLog, p.ret) ELSE <<>>
           /\ pops' = IF p.ret = Nothing THEN pops ELSE pops + 1
    /\ abs' = IF abs = <<>> THEN abs ELSE Tail(abs)
    /\ IF sync
       THEN LET p1 == first_pop(root1, heap1)
            IN  root1' = p1.root /\ heap1' = p1.heap /\ ret1' = p1.ret
       ELSE UNCHANGED <<root1, heap1, ret1>>
    /\ UNCHANGED <<pc, refs, cursor, dropLocals, iterLogs, pushes, sync>>

Peek ==
    /\ pc = "list"
    /\ LET p == peek(root, heap)
       IN  /\ root' = p.root
           /\ heap' = p.heap
           /\ ret' = [op |-> "peek", val |-> p.ret]
    /\ UNCHANGED <<pc, refs, cursor, dropLocals, callLogs, iterLogs, absLogs, firstVars>>

\* second.rs:212,216,225: the caller now holds what peek_mut returned.
PeekMut ==
    /\ pc = "list"
    /\ LET p == peek_mut(root, heap)
           r == p.ret
       IN  /\ root' = p.root
           /\ heap' = p.heap
           /\ ret' = [op |-> "peek_mut", val |-> r]
           /\ refs' = {r[i] : i \in 1..Len(r)}
           /\ pc' = IF r = Nothing THEN "list" ELSE "peek_mut"
           /\ snap' = IF r = Nothing THEN <<>> ELSE ChainElems(root, heap)
           /\ expect' = snap'
           /\ yielded' = IF r = Nothing THEN <<>> ELSE <<r>>
    /\ UNCHANGED <<cursor, dropLocals, callLogs, absLogs, firstVars>>

\* *value = v through a live &mut T (second.rs:225-227).
write(h, n, v) == [h EXCEPT ![n].elem = v]

\* The position at which the reference to node n was yielded.
YieldIndex(n) == CHOOSE i \in 1..Len(yielded) : yielded[i] = Some(n)

Write(n, v) ==
    /\ pc \in {"peek_mut", "iter_mut"}
    /\ n \in refs
    /\ heap' = write(heap, n, v)
    /\ ret' = [op |-> "write", val |-> Some(v)]
    /\ expect' = [expect EXCEPT ![YieldIndex(n)] = v]
    /\ shape' = "mixed"
    /\ pushLog' = <<>>
    /\ popLog' = <<>>
    /\ abs' = [abs EXCEPT ![YieldIndex(n)] = v]
    /\ root1' = first_new.root
    /\ heap1' = <<>>
    /\ ret1' = Nothing
    /\ sync' = FALSE
    /\ UNCHANGED <<root, pc, refs, cursor, dropLocals, snap, yielded, pushes, pops>>

\* The borrow of the list ends: the references and the iterator are gone.
EndBorrow ==
    /\ pc \in {"peek_mut", "iter", "iter_mut"}
    /\ pc' = "list"
    /\ refs' = {}
    /\ cursor' = None
    /\ ret' = [op |-> "end", val |-> Nothing]
    /\ snap' = <<>>
    /\ yielded' = <<>>
    /\ expect' = <<>>
    /\ UNCHANGED <<root, heap, dropLocals, callLogs, absLogs, firstVars>>

\* ------------------------------------------------------------ IntoIter<T>
\* IntoIter(self): the list moves into the iterator, root and all.
into_iter(r) == [root |-> r]

\* A next that reads the first element and leaves its node in the list.
IntoIter_next_keeping(r, h) ==
    [root |-> r, heap |-> h,
     ret  |-> IF r = None THEN Nothing ELSE Some(h[r].elem)]

IntoIter_next(r, h) == pop(r, h)

IntoIter ==
    /\ pc = "list"
    /\ pc' = "into_iter"
    /\ root' = into_iter(root).root
    /\ ret' = [op |-> "into_iter", val |-> Nothing]
    /\ snap' = ChainElems(root, heap)
    /\ yielded' = <<>>
    /\ expect' = <<>>
    /\ UNCHANGED <<heap, refs, cursor, dropLocals, callLogs, absLogs, firstVars>>

IntoIterNext ==
    /\ pc = "into_iter"
    /\ Len(yielded) < Len(snap) + MaxExtra
    /\ LET p == IntoIter_next(root, heap)
       IN  /\ root' = p.root
           /\ heap' = p.heap
           /\ ret' = [op |-> "next", val |-> p.ret]
           /\ yielded' = Append(yielded, p.ret)
           /\ pops' = IF p.ret = Nothing THEN pops ELSE pops + 1
    /\ abs' = IF abs = <<>> THEN abs ELSE Tail(abs)
    /\ UNCHANGED <<pc, refs, cursor, dropLocals, callLogs, snap, expect, pushes, firstVars>>

\* ------------------------------------------------------------ Iter<'a, T>
iter(r) == [next |-> r]

\* A next that moves the cursor two nodes on.
Iter_next_skipping(c, h) ==
    IF c = None
    THEN [next |-> c, ret |-> Nothing]
    ELSE [next |-> IF h[c].next = None THEN None ELSE h[h[c].next].next,
          ret  |-> Some(c)]

\* A next that yields the element and leaves the cursor where it was.
Iter_next_stuck(c, h) ==
    [next |-> c, ret |-> IF c = None THEN Nothing ELSE Some(c)]

Iter_next(c, h) ==
    IF c = None
    THEN [next |-> c, ret |-> Nothing]
    ELSE [next |-> h[c].next, ret |-> Some(c)]

Iter ==
    /\ pc = "list"
    /\ pc' = "iter"
    /\ cursor' = iter(root).next
    /\ ret' = [op |-> "iter", val |-> Nothing]
    /\ snap' = ChainElems(root, heap)
    /\ yielded' = <<>>
    /\ expect' = <<>>
    /\ UNCHANGED <<root, heap, refs, dropLocals, callLogs, absLogs, firstVars>>

IterNext ==
    /\ pc = "iter"
    /\ Len(yielded) < Len(snap) + MaxExtra
    /\ LET n == Iter_next(cursor, heap)
       IN  /\ cursor' = n.next
           /\ ret' = [op |-> "next", val |-> n.ret]
           /\ yielded' = Append(yielded, n.ret)
    /\ UNCHANGED <<root, heap, pc, refs, dropLocals, callLogs, snap, expect, absLogs, firstVars>>

\* ------------------------------------------------------------ IterMut<'a, T>
iter_mut(r) == [next |-> r]

\* A next that copies the cursor instead of taking it, and so stays on the node.
IterMut_next_copying(c, h) ==
    [next |-> c, ret |-> IF c = None THEN Nothing ELSE Some(c)]

\* A next that takes the cursor and never sets it to the successor.
IterMut_next_unadvanced(c, h) ==
    LET t == take(c)
    IN  [next |-> t.left, ret |-> IF t.val = None THEN Nothing ELSE Some(t.val)]

IterMut_next(c, h) ==
    LET t == take(c)
    IN  IF t.val = None
        THEN [next |-> t.left, ret |-> Nothing]
        ELSE [next |-> h[t.val].next, ret |-> Some(t.val)]

IterMut ==
    /\ pc = "list"
    /\ pc' = "iter_mut"
    /\ cursor' = iter_mut(root).next
    /\ ret' = [op |-> "iter_mut", val |-> Nothing]
    /\ snap' = ChainElems(root, heap)
    /\ expect' = snap'
    /\ yielded' = <<>>
    /\ UNCHANGED <<root, heap, refs, dropLocals, callLogs, absLogs, firstVars>>

IterMutNext ==
    /\ pc = "iter_mut"
    /\ Len(yielded) < Len(snap) + MaxExtra
    /\ LET n == IterMut_next(cursor, heap)
       IN  /\ cursor' = n.next
           /\ ret' = [op |-> "next", val |-> n.ret]
           /\ yielded' = Append(yielded, n.ret)
           /\ refs' = refs \cup {n.ret[i] : i \in 1..Len(n.ret)}
    /\ UNCHANGED <<root, heap, pc, dropLocals, callLogs, snap, expect, absLogs, firstVars>>

\* ------------------------------------------------------------ Drop for List<T>
\* Drop glue of a Link<T>: a Some(box) drops the node's fields (its next link
\* among them, recursively) and then releases the box. depth is the nesting
\* of node destructions this takes.
RECURSIVE drop_link(_, _)
drop_link(h, l) ==
    IF l = None
    THEN [heap |-> h, depth |-> 0]
    ELSE LET inner == drop_link(h, h[l].next)
         IN  [heap |-> Free(inner.heap, l), depth |-> inner.depth + 1]

\* A loop body that reads next without putting None in its place.
drop_body_unsevered(h, cl) ==
    [boxed_node |-> cl, cur_link |-> h[cl].next, heap |-> h]

\* A loop body that steps over the successor of the node it discards.
drop_body_skipping(h, cl) ==
    LET nx == h[cl].next
    IN  [boxed_node |-> cl,
         cur_link   |-> IF nx = None THEN None ELSE h[nx].next,
         heap       |-> [h EXCEPT ![cl].next = None]]

\* while let Some(mut boxed_node) = cur_link { cur_link = mem::replace(&mut boxed_node.next, None); }
drop_body(h, cl) ==
    LET m == mem_replace(h[cl].next, None)
    IN  [boxed_node |-> cl,
         cur_link   |-> m.old,
         heap       |-> [h EXCEPT ![cl].next = m.new]]

\* let mut cur_link = self.root.take();
DropBegin ==
    /\ pc \in {"list", "into_iter"}
    /\ LET t == take(root)
       IN  /\ cur_link' = t.val
           /\ root' = t.left
    /\ pc' = "drop_loop"
    /\ ret' = [op |-> "drop", val |-> Nothing]
    /\ iters' = 0
    /\ dropN' = Len(ChainNodes(root, heap))
    /\ UNCHANGED <<heap, refs, cursor, boxed_node, maxDepth, callLogs, iterLogs, absLogs, firstVars>>

DropLoopBody ==
    /\ pc = "drop_loop"
    /\ cur_link # None
    /\ LET b == drop_body(heap, cur_link)
       IN  /\ boxed_node' = b.boxed_node
           /\ cur_link' = b.cur_link
           /\ heap' = b.heap
    /\ pc' = "drop_body"
    /\ iters' = iters + 1
    /\ UNCHANGED <<root, ret, refs, cursor, dropN, maxDepth, callLogs, iterLogs, absLogs, firstVars>>

\* The end of the loop body: boxed_node goes out of scope.
DropScopeEnd ==
    /\ pc = "drop_body"
    /\ LET d == drop_link(heap, boxed_node)
       IN  /\ heap' = d.heap
           /\ maxDepth' = Max(maxDepth, d.depth)
    /\ boxed_node' = None
    /\ pc' = "drop_loop"
    /\ UNCHANGED <<root, ret, refs, cursor, cur_link, iters, dropN, callLogs, iterLogs, absLogs, firstVars>>

\* The loop ends on None; then the list's own field is dropped.
DropLoopExit ==
    /\ pc = "drop_loop"
    /\ cur_link = None
    /\ LET d == drop_link(heap, root)
       IN  /\ heap' = d.heap
           /\ maxDepth' = Max(maxDepth, d.depth)
    /\ pc' = "dropped"
    /\ UNCHANGED <<root, ret, refs, cursor, cur_link, boxed_node, iters, dropN, callLogs, iterLogs, absLogs, firstVars>>

\* let mut list = List::new(), once the lists before it are gone.
New ==
    /\ pc = "dropped"
    /\ root' = new.root
    /\ heap' = <<>>
    /\ pc' = "list"
    /\ ret' = [op |-> "new", val |-> Nothing]
    /\ refs' = {}
    /\ cursor' = None
    /\ cur_link' = None
    /\ boxed_node' = None
    /\ iters' = 0
    /\ dropN' = 0
    /\ maxDepth' = 0
    /\ shape' = "push"
    /\ pushLog' = <<>>
    /\ popLog' = <<>>
    /\ snap' = <<>>
    /\ yielded' = <<>>
    /\ expect' = <<>>
    /\ abs' = <<>>
    /\ pushes' = 0
    /\ pops' = 0
    /\ root1' = first_new.root
    /\ heap1' = <<>>
    /\ ret1' = Nothing
    /\ sync' = TRUE

Next ==
    \/ New
    \/ \E e \in Elems : Push(e)
    \/ Pop
    \/ Peek
    \/ PeekMut
    \/ \E n \in refs, v \in Elems : Write(n, v)
    \/ EndBorrow
    \/ IntoIter
    \/ IntoIterNext
    \/ Iter
    \/ IterNext
    \/ IterMut
    \/ IterMutNext
    \/ DropBegin
    \/ DropLoopBody
    \/ DropScopeEnd
    \/ DropLoopExit

Spec == Init /\ [][Next]_vars

\* Once drop is entered its loop runs on: nothing in it waits or yields.
DropRuns == DropLoopBody \/ DropScopeEnd \/ DropLoopExit
FairSpec == Spec /\ WF_vars(DropRuns)
\* ================================================================ claims

\* C1: pushing e1..en onto a new list and then popping returns Some(en),
\* ..., Some(e1) in that order, and after the n-th pop the list is empty.
C1_PushesThenPopsAreLIFO ==
    shape \in {"push", "pop"} =>
        /\ \A i \in 1..Len(popLog) :
              i <= Len(pushLog) => popLog[i] = Some(pushLog[Len(pushLog) + 1 - i])
        /\ Len(popLog) >= Len(pushLog) => root = None /\ ChainNodes(root, heap) = <<>>

C1_Witness ==
    /\ shape = "pop"
    /\ Len(pushLog) = MaxNodes
    /\ Len(popLog) = Len(pushLog)
    /\ pushLog[1] # pushLog[2]

\* C2: pop on an empty list returns None and leaves the list empty and
\* untouched, on a new list and on a drained one alike; every pop logged
\* after the n-th pop of n pushed elements returned None.
C2_PopOnEmptyIsNone ==
    /\ [][Pop /\ root = None =>
            ret'.val = Nothing /\ root' = None /\ progState' = progState]_vars
    /\ [](shape = "pop" =>
            \A i \in 1..Len(popLog) : i > Len(pushLog) => popLog[i] = Nothing)

C2_Witness ==
    /\ shape = "pop"
    /\ Len(pushLog) >= 1
    /\ Len(popLog) = Len(pushLog) + MaxExtra
    /\ ret = [op |-> "pop", val |-> Nothing]
    /\ root = None

\* C3: peek and peek_mut on an empty list return None and change nothing of
\* the list: no link, no node, and the caller holds no reference afterwards.
C3_PeekOnEmptyIsNone ==
    [][(Peek \/ PeekMut) /\ root = None =>
            ret'.val = Nothing /\ refs' = {} /\ progState' = progState]_vars

C3_Witness ==
    /\ ret = [op |-> "peek_mut", val |-> Nothing]
    /\ root = None
    /\ Len(heap) > 0

\* C4: on a non-empty list peek returns a reference to the first node's
\* element, which after pushes alone is the last element pushed, and the
\* chain has the same nodes and elements after the peek as before.
C4_PeekReturnsFirstRemovesNothing ==
    /\ [][Peek /\ root # None =>
            /\ ret'.val = Some(root)
            /\ Deref(heap', ret'.val[1]) = ChainElems(root, heap)[1]
            /\ ChainNodes(root', heap') = ChainNodes(root, heap)
            /\ ChainElems(root', heap') = ChainElems(root, heap)
            /\ progState' = progState]_vars
    /\ [](ret.op = "peek" /\ shape = "push" /\ pushLog # <<>> =>
            Deref(heap, ret.val[1]) = pushLog[Len(pushLog)])

C4_Witness ==
    /\ ret.op = "peek"
    /\ ret.val = Some(root)
    /\ Len(ChainNodes(root, heap)) >= 2
    /\ ChainElems(root, heap)[1] # ChainElems(root, heap)[2]

\* C5: a value v written through the reference peek_mut returned replaces
\* the first element and nothing else: peek then reads v, pop then returns
\* v, the other elements and the length are as they were.
C5_PeekMutWriteReplacesFirst ==
    pc = "peek_mut" /\ ret.op = "write" =>
        LET v == ret.val[1]
            pk == peek(root, heap)
            pp == pop(root, heap)
        IN  /\ pk.ret # Nothing
            /\ Deref(pk.heap, pk.ret[1]) = v
            /\ pp.ret = Some(v)
            /\ ChainElems(root, heap) = <<v>> \o Tail(snap)
            /\ ChainElems(pp.root, pp.heap) = Tail(snap)

C5_Witness ==
    /\ pc = "peek_mut"
    /\ ret.op = "write"
    /\ Len(snap) >= 2
    /\ ret.val[1] # snap[1]
    /\ ret.val[1] # snap[2]
\* What pop returns, call after call, until it returns None (at most k calls).
RECURSIVE PopUntilNone(_, _, _)
PopUntilNone(r, h, k) ==
    LET p == pop(r, h)
    IN  IF p.ret = Nothing \/ k = 0
        THEN <<>>
        ELSE <<p.ret>> \o PopUntilNone(p.root, p.heap, k - 1)

PopAll(r, h) == PopUntilNone(r, h, Len(h) + 1)

\* C6: the iterator into_iter made of a list of n elements yields those n
\* elements by value, first node first (the reverse of the push order), then
\* None on every further next; what it has not yielded is still in the list.
C6_IntoIterYieldsAllThenNone ==
    pc = "into_iter" =>
        /\ \A i \in 1..Len(yielded) :
              yielded[i] = IF i <= Len(snap) THEN Some(snap[i]) ELSE Nothing
        /\ ChainElems(root, heap) =
              SubSeq(snap, Min(Len(yielded), Len(snap)) + 1, Len(snap))
        /\ shape = "push" => snap = Reverse(pushLog)

C6_Witness ==
    /\ pc = "into_iter"
    /\ shape = "push"
    /\ Len(snap) = MaxNodes
    /\ snap[1] # snap[2]
    /\ Len(yielded) = Len(snap) + MaxExtra

\* C7: the iterator iter made yields a reference to each node's element,
\* first node to last, then None, and no next alters the list: the chain
\* keeps its elements, a fresh iter starts at the first node again and pop
\* would return the first element.
C7_IterYieldsRefsListUntouched ==
    /\ [](pc = "iter" =>
            /\ \A i \in 1..Len(yielded) :
                  /\ yielded[i] = IF i <= Len(snap)
                                  THEN Some(ChainNodes(root, heap)[i]) ELSE Nothing
                  /\ i <= Len(snap) => Deref(heap, yielded[i][1]) = snap[i]
            /\ ChainElems(root, heap) = snap
            /\ Iter_next(iter(root).next, heap).ret = peek(root, heap).ret
            /\ pop(root, heap).ret = IF snap = <<>> THEN Nothing ELSE Some(snap[1])
            /\ shape = "push" => snap = Reverse(pushLog))
    /\ [][IterNext => root' = root /\ heap' = heap /\ pc' = pc /\ refs' = refs]_vars

C7_Witness ==
    /\ pc = "iter"
    /\ Len(snap) = MaxNodes
    /\ snap[1] # snap[2]
    /\ Len(yielded) = Len(snap)
    /\ cursor = None

\* C8: the iterator iter_mut made yields a reference to each node's element,
\* first node to last, and a value written through the i-th reference is the
\* i-th element of the chain from then on: the chain has as many nodes as
\* before, and popping it empty returns the written values in chain order.
C8_IterMutWritesInPlace ==
    pc = "iter_mut" =>
        /\ \A i \in 1..Len(yielded) :
              yielded[i] = IF i <= Len(snap)
                           THEN Some(ChainNodes(root, heap)[i]) ELSE Nothing
        /\ Len(ChainNodes(root, heap)) = Len(snap)
        /\ ChainElems(root, heap) = expect
        /\ PopAll(root, heap) = Somes(expect)

C8_Witness ==
    /\ pc = "iter_mut"
    /\ Len(snap) = MaxNodes
    /\ Len(yielded) > Len(snap)
    /\ \A i \in 1..Len(snap) : expect[i] # snap[i]
    /\ expect[1] # expect[2]
\* The boxes not yet released.
Live(h) == {n \in 1..Len(h) : h[n].drops = 0}
InDrop == pc \in {"drop_loop", "drop_body"}

\* C9: in teardown a node's next link is None by the time the node is
\* discarded, so discarding it discards no successor: no node destruction
\* ever nests deeper than one, and the list's own link is None when the loop
\* has ended and the list's fields are dropped.
C9_DropSeversBeforeDiscard ==
    /\ maxDepth <= 1
    /\ pc = "drop_body" =>
          /\ heap[boxed_node].next = None
          /\ drop_link(heap, boxed_node).depth = 1
    /\ pc = "drop_loop" /\ cur_link = None => drop_link(heap, root).depth = 0

C9_Witness ==
    /\ pc = "dropped"
    /\ dropN = MaxNodes
    /\ maxDepth = 1

\* C10: teardown of a list of n nodes ends, after n loop iterations, with
\* root None and every node released exactly once: each iteration releases
\* one node, none is released twice and none is left.
C10_DropReleasesEachNodeOnce ==
    /\ [](/\ \A n \in 1..Len(heap) : heap[n].drops <= 1
          /\ pc = "drop_loop" => Cardinality(Live(heap)) = dropN - iters
          /\ pc = "drop_body" => Cardinality(Live(heap)) = dropN - iters + 1
          /\ pc = "dropped" =>
                /\ iters = dropN
                /\ root = None
                /\ cur_link = None
                /\ Live(heap) = {})
    /\ (InDrop ~> pc = "dropped")

C10_Witness ==
    /\ pc = "dropped"
    /\ dropN = MaxNodes
    /\ iters = MaxNodes
    /\ \A n \in 1..Len(heap) : heap[n].drops = 1

\* C11: when the consuming iterator is discarded after k < n next calls, the
\* n - k nodes still in the wrapped list go through the list's teardown
\* loop: each has next = None when it is discarded, no destruction nests,
\* and at the end all n - k are released, one per loop iteration.
C11_IntoIterDropTearsDownRest ==
    (InDrop \/ pc = "dropped") /\ Len(yielded) < Len(snap) =>
        /\ dropN = Len(snap) - Len(yielded)
        /\ maxDepth <= 1
        /\ pc = "drop_body" => heap[boxed_node].next = None
        /\ pc = "drop_loop" => Cardinality(Live(heap)) = dropN - iters
        /\ pc = "dropped" => iters = dropN /\ Live(heap) = {}
        /\ \A n \in 1..Len(heap) : heap[n].drops <= 1

C11_Witness ==
    /\ pc = "dropped"
    /\ Len(snap) = MaxNodes
    /\ Len(yielded) = 1
    /\ iters = MaxNodes - 1
    /\ \A n \in 1..Len(heap) : heap[n].drops = 1

\* The nodes whose element the iterator has yielded a reference to.
YieldedNodes == {yielded[i][1] : i \in {j \in 1..Len(yielded) : yielded[j] # Nothing}}
\* The mutable references live in an iter_mut: the cursor and what the caller holds.
MutRefCount == Cardinality(refs) + (IF cursor = None THEN 0 ELSE 1)

\* C12 as stated: during an iter_mut at most one mutable reference into the
\* chain is live, the cursor and the yielded references still held counted.
C12_AtMostOneMutRef ==
    pc = "iter_mut" => MutRefCount <= 1

\* C12 as amended: during an iter_mut the live mutable references, the
\* cursor and the yielded references still held, go to pairwise different
\* nodes of the chain: no node was yielded twice, and the cursor's node is
\* none of the yielded ones.
C12_MutRefsAreDisjoint ==
    pc = "iter_mut" =>
        /\ \A i, j \in 1..Len(yielded) :
              i # j /\ yielded[i] # Nothing => yielded[i] # yielded[j]
        /\ refs \subseteq YieldedNodes
        /\ cursor # None => cursor \notin YieldedNodes
        /\ \A n \in refs \cup (IF cursor = None THEN {} ELSE {cursor}) :
              \E i \in 1..Len(snap) : ChainNodes(root, heap)[i] = n

C12_Witness ==
    /\ pc = "iter_mut"
    /\ Cardinality(refs) = 2
    /\ cursor # None

\* C13: IterMut::next takes the cursor out, yields the element of the node
\* it held and sets the cursor to that node's successor: the cursor is
\* always the node after the yielded ones, every node is yielded at most
\* once and no yielded node is the cursor again.
C13_IterMutMovesForward ==
    /\ [][IterMutNext =>
            /\ take(cursor).left = None
            /\ IF cursor = None
               THEN ret'.val = Nothing /\ cursor' = None
               ELSE ret'.val = Some(cursor) /\ cursor' = heap[cursor].next]_vars
    /\ [](pc = "iter_mut" =>
            LET chain == ChainNodes(root, heap)
                k == Cardinality(YieldedNodes)
            IN  /\ \A i \in 1..Len(yielded) :
                      yielded[i] # Nothing => i <= Len(chain) /\ yielded[i] = Some(chain[i])
                /\ cursor = IF k < Len(chain) THEN chain[k + 1] ELSE None
                /\ cursor # None => cursor \notin YieldedNodes)

C13_Witness ==
    /\ pc = "iter_mut"
    /\ Len(snap) = MaxNodes
    /\ Cardinality(YieldedNodes) = 2
    /\ cursor = ChainNodes(root, heap)[MaxNodes]

\* C18: over a list of n elements iter's and iter_mut's next return Some
\* for exactly the first n calls and None for every call after them; on an
\* empty list the first call returns None.
C18_RefIteratorsYieldNThenNone ==
    pc \in {"iter", "iter_mut"} =>
        /\ Len(snap) = Len(ChainNodes(root, heap))
        /\ \A i \in 1..Len(yielded) : (yielded[i] # Nothing) <=> (i <= Len(snap))

C18_Witness ==
    /\ pc = "iter"
    /\ Len(snap) = MaxNodes
    /\ Len(yielded) = Len(snap) + MaxExtra
    /\ yielded[Len(snap)] # Nothing
    /\ yielded[Len(yielded)] = Nothing

C18_WitnessEmpty ==
    /\ pc = "iter_mut"
    /\ snap = <<>>
    /\ yielded = <<Nothing>>

\* The owning links that hold node n: the given links outside the heap, and
\* the next fields of the nodes.
OwnerCount(n, links, h) ==
    Cardinality({i \in DOMAIN links : links[i] = n})
        + Cardinality({m \in 1..Len(h) : h[m].next = n})

\* No node is reached from itself, and no node has two owners.
WellOwned(links, h) ==
    \A n \in 1..Len(h) :
        /\ OwnerCount(n, links, h) <= 1
        /\ \A i \in 1..Len(Walk(h[n].next, h, Len(h) + 1)) :
              Walk(h[n].next, h, Len(h) + 1)[i] # n

\* C15: in every state, the states inside push and pop with the list's link
\* taken and the states inside teardown included, the chain is acyclic and
\* each node is held by at most one owning link.
C15_AcyclicSingleOwner ==
    /\ WellOwned(<<root, cur_link, boxed_node>>, heap)
    /\ pc = "list" =>
          \A e \in Elems :
              LET m == push_taken(root, heap, e)
              IN  m.root = None /\ WellOwned(<<m.root, m.new_node>>, m.heap)
    /\ pc \in {"list", "into_iter"} =>
          LET m == pop_taken(root, heap)
          IN  m.root = None /\ WellOwned(<<m.root, m.node>>, m.heap)

C15_Witness ==
    /\ pc = "list"
    /\ Len(heap) = MaxNodes
    /\ Len(ChainNodes(root, heap)) = 2
    /\ pop_taken(root, heap).node = root
    /\ push_taken(root, heap, 1).heap[MaxNodes + 1].next = root

C15_WitnessTeardown ==
    /\ pc = "drop_body"
    /\ cur_link # None
    /\ boxed_node # None

HoldsList == pc \in {"list", "peek_mut", "iter", "iter_mut", "into_iter"}
ChainSet(l, h) == {ChainNodes(l, h)[i] : i \in 1..Len(ChainNodes(l, h))}

\* C14: after any interleaving of push, pop, peek and peek_mut the chain read
\* from root is the abstract stack (push prepends, pop removes the head, a
\* write through peek_mut's reference replaces the head): the first node is
\* the most recently allocated node not yet released, and every pop returns
\* the head of the abstract stack, or None when it is empty.
C14_ChainRefinesStack ==
    /\ [](HoldsList =>
            /\ ChainElems(root, heap) = abs
            /\ (root = None) <=> (Live(heap) = {})
            /\ \A n \in Live(heap) : n <= root
            /\ \A i \in 1..Len(ChainNodes(root, heap)) - 1 :
                  ChainNodes(root, heap)[i] > ChainNodes(root, heap)[i + 1])
    /\ [][Pop => ret'.val = IF abs = <<>> THEN Nothing ELSE Some(Head(abs))]_vars
    /\ [][\E e \in Elems : Push(e) =>
            /\ root' = Len(heap')
            /\ heap'[root'].next = root
            /\ Tail(ChainNodes(root', heap')) = ChainNodes(root, heap)
            /\ Tail(ChainElems(root', heap')) = ChainElems(root, heap)]_vars

C14_Witness ==
    /\ pc = "list"
    /\ ret.op = "pop"
    /\ ret.val # Nothing
    /\ shape = "mixed"
    /\ Len(heap) = MaxNodes
    /\ pops = 2
    /\ Len(abs) = 1
    /\ ret.val # Some(abs[1])

\* C16: push allocates exactly one node, a pop that returns Some releases
\* exactly one, and no other call allocates or releases any: while the list
\* is held the live nodes are the nodes of the chain and number pushes minus
\* successful pops; after teardown none is live.
C16_LiveNodesArePushesMinusPops ==
    /\ [](HoldsList =>
            /\ Len(heap) = pushes
            /\ Cardinality(Live(heap)) = pushes - pops
            /\ Live(heap) = ChainSet(root, heap)
            /\ \A n \in 1..Len(heap) : heap[n].drops <= 1)
    /\ [](pc = "dropped" => Live(heap) = {} /\ \A n \in 1..Len(heap) : heap[n].drops = 1)
    /\ [][\E e \in Elems : Push(e) =>
            Len(heap') = Len(heap) + 1 /\ Live(heap') = Live(heap) \cup {Len(heap')}]_vars
    /\ [][(Pop \/ IntoIterNext) /\ root # None =>
            Len(heap') = Len(heap) /\ Live(heap') = Live(heap) \ {root}]_vars
    /\ [][\/ (Pop \/ IntoIterNext) /\ root = None
          \/ Peek \/ PeekMut \/ Iter \/ IterNext \/ IterMut \/ IterMutNext
          \/ IntoIter \/ EndBorrow
          \/ \E n \in refs, v \in Elems : Write(n, v)
          => Len(heap') = Len(heap) /\ Live(heap') = Live(heap)]_vars

C16_Witness ==
    /\ pc = "list"
    /\ pushes = MaxNodes
    /\ pops = 2
    /\ Cardinality(Live(heap)) = 1
    /\ ret.op = "peek"

C16_WitnessTornDown ==
    /\ pc = "dropped"
    /\ pushes = MaxNodes
    /\ pops = 1

\* first.rs: the elements from link l through next, first to last.
FirstChainElems(l, h) == ChainElems(l, h)

\* C17: given the same new, push and pop calls, the first.rs list and the
\* second.rs list return the same from every pop, and hold the same
\* elements in the same order after every call.
C17_FirstAndSecondAgree ==
    sync =>
        /\ ret.op = "pop" => ret1 = ret.val
        /\ pc \in {"list", "peek_mut", "iter", "iter_mut"} =>
              FirstChainElems(root1, heap1) = ChainElems(root, heap)
        /\ pc = "list" => first_pop(root1, heap1).ret = pop(root, heap).ret

C17_Witness ==
    /\ sync
    /\ pc = "list"
    /\ ret.op = "pop"
    /\ ret.val # Nothing
    /\ ret1 = ret.val
    /\ shape = "mixed"
    /\ Len(heap1) = MaxNodes
    /\ Len(ChainElems(root1, heap1)) = 2
====
